---- MODULE Spec2Model ----
(***************************************************************************)
(* A model of the transaction codec and signing steps of                   *)
(* stacks-transactions-js: src/src/postcondition.ts (PostCondition and its *)
(* three variants) and src/src/transaction.ts (StacksTransaction).         *)
(*                                                                         *)
(* Conventions                                                             *)
(*   - a Buffer is a sequence of bytes (0..255);                           *)
(*   - a hex string is a sequence of nibbles (0..15), so '80' is <<8,0>>;  *)
(*   - an optional field is None (undefined) or Some(v);                   *)
(*   - a BigNum is its canonical big-endian base-256 numeral (no leading   *)
(*     zero digit, zero is the empty numeral);                             *)
(*   - a serializer returns [ok, bytes, err]: err is the message of the    *)
(*     Error thrown when ok is FALSE;                                      *)
(*   - a deserializer takes the unread part of the BufferReader and        *)
(*     returns [ok, val, rest].                                            *)
(***************************************************************************)
EXTENDS Integers, Sequences, FiniteSets, TLC

VARIABLES
    tx,     \* the StacksTransaction object the operations act on
    pc,     \* the PostCondition object the post-condition operations act on
    res     \* what the last operation returned or threw

vars == <<tx, pc, res>>

----------------------------------------------------------------------------
(* Optional values, buffers, hex strings.                                  *)

None == <<>>
Some(v) == <<v>>
IsSome(o) == Len(o) = 1
Get(o) == o[1]

Fill(n, b) == [i \in 1..n |-> b]

\* Buffer.toString('hex')
ToHex(buf) ==
    [i \in 1..(2 * Len(buf)) |->
        IF i % 2 = 1 THEN buf[(i + 1) \div 2] \div 16 ELSE buf[i \div 2] % 16]

\* BufferArray.appendHexString: Buffer.from(hexString, 'hex')
FromHex(hex) ==
    [i \in 1..(Len(hex) \div 2) |-> hex[2 * i - 1] * 16 + hex[2 * i]]

Ok(bytes) == [ok |-> TRUE, bytes |-> bytes, err |-> ""]
Err(msg) == [ok |-> FALSE, bytes |-> <<>>, err |-> msg]

\* BufferArray.push / concatBuffer over pieces that may throw: the first
\* piece that throws, in order, decides the error.
RECURSIVE CatAll(_)
CatAll(pieces) ==
    IF pieces = <<>> THEN Ok(<<>>)
    ELSE IF ~pieces[1].ok THEN pieces[1]
    ELSE LET r == CatAll(Tail(pieces))
         IN  IF r.ok THEN Ok(pieces[1].bytes \o r.bytes) ELSE r

\* BufferReader.read(n): the next n bytes, a format error past the end.
Read(buf, n) ==
    IF Len(buf) >= n
    THEN [ok |-> TRUE, val |-> SubSeq(buf, 1, n), rest |-> SubSeq(buf, n + 1, Len(buf))]
    ELSE [ok |-> FALSE, val |-> <<>>, rest |-> buf]

Fail(val, buf) == [ok |-> FALSE, val |-> val, rest |-> buf]
Done(val, buf) == [ok |-> TRUE, val |-> val, rest |-> buf]

\* One statement of a deserialize method: `s` is the reader and the object
\* built so far, `r` the read the statement makes, `val` the object after its
\* assignment.  A failed read throws: later statements do not run.
ThenAssign(s, r, val) ==
    IF ~s.ok THEN s
    ELSE IF ~r.ok THEN Fail(s.val, s.rest)
    ELSE Done(val, r.rest)

----------------------------------------------------------------------------
(* BigNum (bn.js), as far as the codec uses it.                            *)

RECURSIVE StripZeros(_)
StripZeros(s) ==
    IF s /= <<>> /\ s[1] = 0 THEN StripZeros(Tail(s)) ELSE s

\* amount.toArrayLike(Buffer, 'be', length): left-padded big-endian bytes;
\* bn.js asserts that the numeral fits.
BNToArrayLike(n, length) ==
    IF Len(n) > length THEN Err("byte array longer than desired length")
    ELSE Ok(Fill(length - Len(n), 0) \o n)

\* new BigNum(hexString, 16)
BNFromHex(hex) ==
    LET h == StripZeros(hex)
    IN  FromHex(IF Len(h) % 2 = 1 THEN <<0>> \o h ELSE h)

\* big-endian / little-endian numerals of the same digits
Reverse(s) == [i \in 1..Len(s) |-> s[Len(s) + 1 - i]]

----------------------------------------------------------------------------
(* Enumerations of ./constants, as the hex strings of their tag bytes.     *)

TransactionVersionMainnet == <<0, 0>>
TransactionVersionTestnet == <<8, 0>>
DEFAULT_CHAIN_ID == <<0, 0, 0, 0, 0, 0, 0, 0>>

AnchorModeOnChainOnly == <<0, 1>>
AnchorModeOffChainOnly == <<0, 2>>
AnchorModeAny == <<0, 3>>

PostConditionModeAllow == <<0, 1>>
PostConditionModeDeny == <<0, 2>>

AuthTypeStandard == <<0, 4>>
AuthTypeSponsored == <<0, 5>>

PayloadTypeTokenTransfer == <<0, 0>>
PayloadTypeSmartContract == <<0, 1>>
PayloadTypeContractCall == <<0, 2>>
PayloadTypePoisonMicroblock == <<0, 3>>
PayloadTypeCoinbase == <<0, 4>>

PostConditionTypeSTX == <<0, 0>>
PostConditionTypeFungible == <<0, 1>>
PostConditionTypeNonFungible == <<0, 2>>

FungibleConditionCodeEqual == <<0, 1>>
FungibleConditionCodeGreaterEqual == <<0, 3>>
FungibleConditionCodeLessEqual == <<0, 5>>
NonFungibleConditionCodeDoesNotOwn == <<1, 0>>
NonFungibleConditionCodeOwns == <<1, 1>>

PrincipalTypeStandard == <<0, 2>>
PrincipalTypeContract == <<0, 3>>

----------------------------------------------------------------------------
(* Value types of ./types: LengthPrefixedString, Address, AssetInfo,       *)
(* Principal.  A string is the sequence of its UTF-8 bytes.                *)

LengthPrefixedString(content) == [content |-> content]

LengthPrefixedStringSerialize(s) ==
    IF Len(s.content) > 128 THEN Err("String length exceeds maximum bytes 128")
    ELSE Ok(<<Len(s.content)>> \o s.content)

LengthPrefixedStringDeserialize(buf) ==
    LET l == Read(buf, 1) IN
    IF ~l.ok THEN Fail(None, buf)
    ELSE LET c == Read(l.rest, l.val[1]) IN
         IF ~c.ok THEN Fail(None, buf)
         ELSE Done(LengthPrefixedString(c.val), c.rest)

Address(version, hash) == [version |-> version, hash |-> hash]

AddressSerialize(a) == Ok(<<a.version>> \o a.hash)

AddressDeserialize(buf) ==
    LET r == Read(buf, 21) IN
    IF ~r.ok THEN Fail(None, buf)
    ELSE Done(Address(r.val[1], SubSeq(r.val, 2, 21)), r.rest)

AssetInfo(address, contractName, assetName) ==
    [address |-> address,
     contractName |-> LengthPrefixedString(contractName),
     assetName |-> LengthPrefixedString(assetName)]

AssetInfoSerialize(a) ==
    CatAll(<<AddressSerialize(a.address),
             LengthPrefixedStringSerialize(a.contractName),
             LengthPrefixedStringSerialize(a.assetName)>>)

AssetInfoDeserialize(buf) ==
    LET a == AddressDeserialize(buf) IN
    IF ~a.ok THEN Fail(None, buf)
    ELSE LET c == LengthPrefixedStringDeserialize(a.rest) IN
         IF ~c.ok THEN Fail(None, buf)
         ELSE LET n == LengthPrefixedStringDeserialize(c.rest) IN
              IF ~n.ok THEN Fail(None, buf)
              ELSE Done([address |-> a.val, contractName |-> c.val,
                         assetName |-> n.val], n.rest)

StandardPrincipal(address) ==
    [principalType |-> PrincipalTypeStandard, address |-> address,
     contractName |-> None]

ContractPrincipal(address, contractName) ==
    [principalType |-> PrincipalTypeContract, address |-> address,
     contractName |-> Some(LengthPrefixedString(contractName))]

PrincipalSerialize(p) ==
    CatAll(<<Ok(FromHex(p.principalType)), AddressSerialize(p.address)>>
           \o (IF p.principalType = PrincipalTypeContract
               THEN <<LengthPrefixedStringSerialize(Get(p.contractName))>>
               ELSE <<>>))

PrincipalDeserialize(buf) ==
    LET t == Read(buf, 1) IN
    IF ~t.ok THEN Fail(None, buf)
    ELSE IF ToHex(t.val) \notin {PrincipalTypeStandard, PrincipalTypeContract}
    THEN Fail(None, buf)
    ELSE LET a == AddressDeserialize(t.rest) IN
         IF ~a.ok THEN Fail(None, buf)
         ELSE IF ToHex(t.val) = PrincipalTypeStandard
         THEN Done(StandardPrincipal(a.val), a.rest)
         ELSE LET c == LengthPrefixedStringDeserialize(a.rest) IN
              IF ~c.ok THEN Fail(None, buf)
              ELSE Done([principalType |-> PrincipalTypeContract,
                         address |-> a.val, contractName |-> Some(c.val)],
                        c.rest)

----------------------------------------------------------------------------
(* postcondition.ts                                                        *)

\* class PostCondition: constructor
PostCondition(postConditionType, principal, conditionCode, amount, assetInfo, assetName) ==
    [postConditionType |-> postConditionType,
     principal |-> principal,
     conditionCode |-> conditionCode,
     amount |-> amount,
     assetInfo |-> assetInfo,
     assetName |-> IF IsSome(assetName)
                   THEN Some(LengthPrefixedString(Get(assetName)))
                   ELSE None]

\* new PostCondition(): every field undefined
EmptyPostCondition == PostCondition(None, None, None, None, None, None)

STXPostCondition(principal, conditionCode, amount) ==
    PostCondition(Some(PostConditionTypeSTX), principal, conditionCode, amount, None, None)

FungiblePostCondition(principal, conditionCode, amount, assetInfo) ==
    PostCondition(Some(PostConditionTypeFungible), principal, conditionCode, amount,
                  assetInfo, None)

\* a variant that passes a zero amount where the code passes undefined
NonFungiblePostConditionZeroAmount(principal, conditionCode, assetInfo, assetName) ==
    PostCondition(Some(PostConditionTypeNonFungible), principal, conditionCode,
                  Some(<<>>), assetInfo, assetName)

NonFungiblePostCondition(principal, conditionCode, assetInfo, assetName) ==
    PostCondition(Some(PostConditionTypeNonFungible), principal, conditionCode, None,
                  assetInfo, assetName)

\* one field: throw '"name" is undefined' when absent, else append the
\* bytes it serializes to
Field(opt, name, serialized) ==
    IF IsSome(opt) THEN serialized ELSE Err(name)

HexField(h) == Ok(FromHex(h))

\* PostCondition.serialize, with the byte order and width of the amount
PostConditionSerializeWith(p, bigEndian, width) ==
    LET t == p.postConditionType
        amount == LET r == BNToArrayLike(Get(p.amount), width)
                  IN  IF r.ok /\ ~bigEndian THEN Ok(Reverse(r.bytes)) ELSE r
    IN
    CatAll(
        <<Field(t, "postConditionType", HexField(Get(t))),
          Field(p.principal, "principal", PrincipalSerialize(Get(p.principal)))>>
        \o (IF t \in {Some(PostConditionTypeFungible), Some(PostConditionTypeNonFungible)}
            THEN <<Field(p.assetInfo, "assetInfo", AssetInfoSerialize(Get(p.assetInfo)))>>
            ELSE <<>>)
        \o (IF t = Some(PostConditionTypeNonFungible)
            THEN <<Field(p.assetName, "assetName",
                         LengthPrefixedStringSerialize(Get(p.assetName)))>>
            ELSE <<>>)
        \o <<Field(p.conditionCode, "conditionCode", HexField(Get(p.conditionCode)))>>
        \o (IF t \in {Some(PostConditionTypeSTX), Some(PostConditionTypeFungible)}
            THEN <<Field(p.amount, "amount", amount)>> ELSE <<>>))

PostConditionSerializeLittleEndian(p) == PostConditionSerializeWith(p, FALSE, 8)

PostConditionSerialize(p) == PostConditionSerializeWith(p, TRUE, 8)

\* PostCondition.deserialize: assigns the fields of `this` as it reads; a
\* read that fails leaves the fields assigned so far.  One operator per
\* statement, each taking the reader and the object its predecessor left.
ReadPostConditionType(s) ==
    LET r == Read(s.rest, 1)
    IN  ThenAssign(s, r, [s.val EXCEPT !.postConditionType = Some(ToHex(r.val))])

ReadPrincipal(s) ==
    LET r == PrincipalDeserialize(s.rest)
    IN  ThenAssign(s, r, [s.val EXCEPT !.principal = Some(r.val)])

ReadAssetInfo(s) ==
    IF ~s.ok THEN s
    ELSE IF Get(s.val.postConditionType)
            \notin {PostConditionTypeFungible, PostConditionTypeNonFungible}
    THEN s
    ELSE LET r == AssetInfoDeserialize(s.rest)
         IN  ThenAssign(s, r, [s.val EXCEPT !.assetInfo = Some(r.val)])

ReadAssetName(s) ==
    IF ~s.ok THEN s
    ELSE IF Get(s.val.postConditionType) /= PostConditionTypeNonFungible THEN s
    ELSE LET r == LengthPrefixedStringDeserialize(s.rest)
         IN  ThenAssign(s, r, [s.val EXCEPT !.assetName = Some(r.val)])

ReadConditionCode(s) ==
    LET r == Read(s.rest, 1)
    IN  ThenAssign(s, r, [s.val EXCEPT !.conditionCode = Some(ToHex(r.val))])

ReadAmount(s) ==
    IF ~s.ok THEN s
    ELSE IF Get(s.val.postConditionType)
            \notin {PostConditionTypeSTX, PostConditionTypeFungible}
    THEN s
    ELSE LET r == Read(s.rest, 8)
         IN  ThenAssign(s, r, [s.val EXCEPT !.amount = Some(BNFromHex(ToHex(r.val)))])

PostConditionDeserialize(this, buf) ==
    ReadAmount(ReadConditionCode(ReadAssetName(ReadAssetInfo(
        ReadPrincipal(ReadPostConditionType(Done(this, buf)))))))

----------------------------------------------------------------------------
(* ./utils, ./keys: the hash and the recoverable signature.  Both are      *)
(* external primitives; sha512_256 is modelled by a 16-bit tree            *)
(* digest and the signature by 65 bytes determined by the hash signed and  *)
(* the key.                                                                *)

RECURSIVE Digest(_)
Digest(bytes) ==
    IF Len(bytes) = 0 THEN 7
    ELSE IF Len(bytes) = 1 THEN bytes[1] + 1
    ELSE LET m == Len(bytes) \div 2
         IN  (Digest(SubSeq(bytes, 1, m)) * 257
              + Digest(SubSeq(bytes, m + 1, Len(bytes))) * 263
              + Len(bytes)) % 65521

sha512_256(bytes) == LET d == Digest(bytes) IN <<d \div 256, d % 256>>

\* txidFromData: the hex string of the hash of the serialized transaction
txidFromData(serialized) == ToHex(sha512_256(serialized))

\* MessageSignature.empty(): 65 zero bytes
EmptySignature == Fill(65, 0)

\* StacksPrivateKey.sign(hash): recovery id, r, s
Sign(hash, privateKey) ==
    <<1>> \o Fill(30, 0) \o sha512_256(hash \o privateKey)
          \o Fill(30, 0) \o sha512_256(privateKey \o hash)

----------------------------------------------------------------------------
(* ./authorization: SpendingCondition and Authorization.                   *)

AddressHashModeSerializeP2PKH == <<0, 0>>
AddressHashModeSerializeP2SH == <<0, 1>>

U64(optBN, name) == IF IsSome(optBN) THEN BNToArrayLike(Get(optBN), 8) ELSE Err(name)

U32BE(n) == <<0, 0, n \div 256, n % 256>>

ReadU32(buf) ==
    LET r == Read(buf, 4) IN
    IF ~r.ok \/ r.val[1] /= 0 \/ r.val[2] /= 0 THEN Fail(0, buf)
    ELSE Done(r.val[3] * 256 + r.val[4], r.rest)

\* new SingleSigSpendingCondition(hashMode, pubKey, nonce, feeRate)
SingleSigSpendingCondition(signerHash, nonce, feeRate) ==
    [addressHashMode |-> AddressHashModeSerializeP2PKH,
     signerAddress |-> signerHash,
     nonce |-> nonce,
     feeRate |-> feeRate,
     pubKeyEncoding |-> 0,
     signature |-> EmptySignature,
     fields |-> <<>>,
     signaturesRequired |-> 0]

\* a multi-sig condition: an ordered list of signature fields and a threshold
MultiSigSpendingCondition(signerHash, nonce, feeRate, required) ==
    [addressHashMode |-> AddressHashModeSerializeP2SH,
     signerAddress |-> signerHash,
     nonce |-> nonce,
     feeRate |-> feeRate,
     pubKeyEncoding |-> 0,
     signature |-> EmptySignature,
     fields |-> <<>>,
     signaturesRequired |-> required]

\* SpendingCondition.singleSig()
singleSig(condition) == condition.addressHashMode = AddressHashModeSerializeP2PKH

RECURSIVE Flatten(_)
Flatten(ss) == IF ss = <<>> THEN <<>> ELSE ss[1] \o Flatten(Tail(ss))

SpendingConditionSerialize(c) ==
    CatAll(<<Ok(FromHex(c.addressHashMode)),
             Ok(c.signerAddress),
             U64(c.nonce, "nonce"),
             U64(c.feeRate, "feeRate")>>
           \o (IF singleSig(c)
               THEN <<Ok(<<c.pubKeyEncoding>>), Ok(c.signature)>>
               ELSE <<Ok(U32BE(Len(c.fields))), Ok(Flatten(c.fields)),
                      Ok(<<c.signaturesRequired \div 256, c.signaturesRequired % 256>>)>>))

RECURSIVE ReadSignatures(_, _)
ReadSignatures(buf, n) ==
    IF n = 0 THEN Done(<<>>, buf)
    ELSE LET r == Read(buf, 65) IN
         IF ~r.ok THEN Fail(<<>>, buf)
         ELSE LET t == ReadSignatures(r.rest, n - 1) IN
              IF ~t.ok THEN Fail(<<>>, buf) ELSE Done(<<r.val>> \o t.val, t.rest)

SpendingConditionDeserialize(buf) ==
    LET h == Read(buf, 37) IN
    IF ~h.ok THEN Fail(None, buf) ELSE
    LET mode == ToHex(SubSeq(h.val, 1, 1))
        base == [addressHashMode |-> mode,
                 signerAddress |-> SubSeq(h.val, 2, 21),
                 nonce |-> Some(BNFromHex(ToHex(SubSeq(h.val, 22, 29)))),
                 feeRate |-> Some(BNFromHex(ToHex(SubSeq(h.val, 30, 37)))),
                 pubKeyEncoding |-> 0,
                 signature |-> EmptySignature,
                 fields |-> <<>>,
                 signaturesRequired |-> 0]
    IN
    IF mode = AddressHashModeSerializeP2PKH
    THEN LET r == Read(h.rest, 66) IN
         IF ~r.ok THEN Fail(None, buf)
         ELSE Done([base EXCEPT !.pubKeyEncoding = r.val[1],
                                !.signature = SubSeq(r.val, 2, 66)], r.rest)
    ELSE IF mode = AddressHashModeSerializeP2SH
    THEN LET n == ReadU32(h.rest) IN
         IF ~n.ok THEN Fail(None, buf) ELSE
         LET f == ReadSignatures(n.rest, n.val) IN
         IF ~f.ok THEN Fail(None, buf) ELSE
         LET q == Read(f.rest, 2) IN
         IF ~q.ok THEN Fail(None, buf)
         ELSE Done([base EXCEPT !.fields = f.val,
                                !.signaturesRequired = q.val[1] * 256 + q.val[2]], q.rest)
    ELSE Fail(None, buf)

\* SpendingCondition.clear(): the condition without its signatures
Clear(c) == [c EXCEPT !.signature = EmptySignature, !.fields = <<>>]

\* new Authorization(authType, spendingCondition[, sponsorCondition])
Authorization(authType, spendingCondition, sponsorCondition) ==
    [authType |-> authType,
     spendingCondition |-> spendingCondition,
     sponsorCondition |-> sponsorCondition]

StandardAuthorization(spendingCondition) ==
    Authorization(Some(AuthTypeStandard), Some(spendingCondition), None)

SponsoredAuthorization(spendingCondition, sponsorCondition) ==
    Authorization(Some(AuthTypeSponsored), Some(spendingCondition), Some(sponsorCondition))

\* order: tag byte, origin condition, then (if sponsored) sponsor condition
AuthorizationSerialize(a) ==
    CatAll(<<Field(a.authType, "authType", HexField(Get(a.authType))),
             Field(a.spendingCondition, "spendingCondition",
                   SpendingConditionSerialize(Get(a.spendingCondition)))>>
           \o (IF a.authType = Some(AuthTypeSponsored)
               THEN <<Field(a.sponsorCondition, "sponsorCondition",
                            SpendingConditionSerialize(Get(a.sponsorCondition)))>>
               ELSE <<>>))

AuthorizationDeserialize(buf) ==
    LET t == Read(buf, 1) IN
    IF ~t.ok THEN Fail(None, buf) ELSE
    IF ToHex(t.val) \notin {AuthTypeStandard, AuthTypeSponsored} THEN Fail(None, buf) ELSE
    LET o == SpendingConditionDeserialize(t.rest) IN
    IF ~o.ok THEN Fail(None, buf) ELSE
    IF ToHex(t.val) = AuthTypeStandard
    THEN Done(Authorization(Some(AuthTypeStandard), Some(o.val), None), o.rest)
    ELSE LET p == SpendingConditionDeserialize(o.rest) IN
         IF ~p.ok THEN Fail(None, buf)
         ELSE Done(Authorization(Some(AuthTypeSponsored), Some(o.val), Some(p.val)), p.rest)

\* Authorization.intoInitialSighashAuth(): the authorization stripped of
\* the signatures that are not yet known
intoInitialSighashAuth(a) ==
    [a EXCEPT !.spendingCondition = IF IsSome(@) THEN Some(Clear(Get(@))) ELSE @,
              !.sponsorCondition = IF IsSome(@) THEN Some(Clear(Get(@))) ELSE @]

\* SpendingCondition.nextSignature(curSigHash, authType, feeRate, nonce, key):
\* the pre-sign hash binds the sighash to the auth type, fee rate and nonce;
\* the next sighash is the hash of the pre-sign hash and the signature.
nextSignature(curSigHash, authType, feeRate, nonce, privateKey) ==
    LET fee == IF IsSome(feeRate) THEN BNToArrayLike(Get(feeRate), 8).bytes ELSE <<>>
        non == IF IsSome(nonce) THEN BNToArrayLike(Get(nonce), 8).bytes ELSE <<>>
        presign == sha512_256(FromHex(curSigHash) \o FromHex(authType) \o fee \o non)
        sig == Sign(presign, privateKey)
    IN  [nextSig |-> sig, nextSigHash |-> ToHex(sha512_256(presign \o sig))]

----------------------------------------------------------------------------
(* ./payload: the five payload variants.                                   *)

TokenTransferPayload(recipientAddress, amount, memo) ==
    [payloadType |-> PayloadTypeTokenTransfer,
     recipientAddress |-> recipientAddress,
     amount |-> amount,
     memo |-> memo \o Fill(34 - Len(memo), 0)]

ContractCallPayload(contractAddress, contractName, functionName, functionArgs) ==
    [payloadType |-> PayloadTypeContractCall,
     contractAddress |-> contractAddress,
     contractName |-> LengthPrefixedString(contractName),
     functionName |-> LengthPrefixedString(functionName),
     functionArgs |-> functionArgs]

SmartContractPayload(contractName, codeBody) ==
    [payloadType |-> PayloadTypeSmartContract,
     contractName |-> LengthPrefixedString(contractName),
     codeBody |-> codeBody]

PoisonPayload(header1, header2) ==
    [payloadType |-> PayloadTypePoisonMicroblock,
     header1 |-> header1,
     header2 |-> header2]

CoinbasePayload(coinbaseBuffer) ==
    [payloadType |-> PayloadTypeCoinbase, coinbaseBuffer |-> coinbaseBuffer]

PayloadSerialize(p) ==
    LET t == p.payloadType IN
    CatAll(<<Ok(FromHex(t))>> \o
        (IF t = PayloadTypeTokenTransfer
         THEN <<AddressSerialize(p.recipientAddress), BNToArrayLike(p.amount, 8),
                Ok(p.memo)>>
         ELSE IF t = PayloadTypeContractCall
         THEN <<AddressSerialize(p.contractAddress),
                LengthPrefixedStringSerialize(p.contractName),
                LengthPrefixedStringSerialize(p.functionName),
                Ok(U32BE(Len(p.functionArgs))), Ok(p.functionArgs)>>
         ELSE IF t = PayloadTypeSmartContract
         THEN <<LengthPrefixedStringSerialize(p.contractName),
                Ok(U32BE(Len(p.codeBody))), Ok(p.codeBody)>>
         ELSE IF t = PayloadTypePoisonMicroblock
         THEN <<Ok(p.header1), Ok(p.header2)>>
         ELSE <<Ok(p.coinbaseBuffer)>>))

PayloadDeserialize(buf) ==
    LET t == Read(buf, 1) IN
    IF ~t.ok THEN Fail(None, buf) ELSE
    LET type == ToHex(t.val) IN
    IF type = PayloadTypeTokenTransfer
    THEN LET a == AddressDeserialize(t.rest) IN
         IF ~a.ok THEN Fail(None, buf) ELSE
         LET r == Read(a.rest, 42) IN
         IF ~r.ok THEN Fail(None, buf)
         ELSE Done([payloadType |-> type, recipientAddress |-> a.val,
                    amount |-> BNFromHex(ToHex(SubSeq(r.val, 1, 8))),
                    memo |-> SubSeq(r.val, 9, 42)], r.rest)
    ELSE IF type = PayloadTypeContractCall
    THEN LET a == AddressDeserialize(t.rest) IN
         IF ~a.ok THEN Fail(None, buf) ELSE
         LET c == LengthPrefixedStringDeserialize(a.rest) IN
         IF ~c.ok THEN Fail(None, buf) ELSE
         LET f == LengthPrefixedStringDeserialize(c.rest) IN
         IF ~f.ok THEN Fail(None, buf) ELSE
         LET n == ReadU32(f.rest) IN
         IF ~n.ok THEN Fail(None, buf) ELSE
         LET v == Read(n.rest, n.val) IN
         IF ~v.ok THEN Fail(None, buf)
         ELSE Done([payloadType |-> type, contractAddress |-> a.val,
                    contractName |-> c.val, functionName |-> f.val,
                    functionArgs |-> v.val], v.rest)
    ELSE IF type = PayloadTypeSmartContract
    THEN LET c == LengthPrefixedStringDeserialize(t.rest) IN
         IF ~c.ok THEN Fail(None, buf) ELSE
         LET n == ReadU32(c.rest) IN
         IF ~n.ok THEN Fail(None, buf) ELSE
         LET b == Read(n.rest, n.val) IN
         IF ~b.ok THEN Fail(None, buf)
         ELSE Done([payloadType |-> type, contractName |-> c.val, codeBody |-> b.val],
                   b.rest)
    ELSE IF type = PayloadTypePoisonMicroblock
    THEN LET r == Read(t.rest, 64) IN
         IF ~r.ok THEN Fail(None, buf)
         ELSE Done([payloadType |-> type, header1 |-> SubSeq(r.val, 1, 32),
                    header2 |-> SubSeq(r.val, 33, 64)], r.rest)
    ELSE IF type = PayloadTypeCoinbase
    THEN LET r == Read(t.rest, 32) IN
         IF ~r.ok THEN Fail(None, buf)
         ELSE Done([payloadType |-> type, coinbaseBuffer |-> r.val], r.rest)
    ELSE Fail(None, buf)

----------------------------------------------------------------------------
(* ./types: LengthPrefixedList<PostCondition>.                             *)

RECURSIVE SerializeEach(_)
SerializeEach(list) ==
    IF list = <<>> THEN <<>>
    ELSE <<PostConditionSerialize(list[1])>> \o SerializeEach(Tail(list))

\* count(4) element...
LengthPrefixedListSerialize(list) ==
    CatAll(<<Ok(U32BE(Len(list)))>> \o SerializeEach(list))

\* one element read and pushed onto the list read so far
AppendElement(s, e) ==
    IF ~e.ok THEN Fail(s.val, s.rest) ELSE Done(Append(s.val, e.val), e.rest)

RECURSIVE DeserializeEach(_, _)
DeserializeEach(s, n) ==
    IF n = 0 \/ ~s.ok THEN s
    ELSE DeserializeEach(
             AppendElement(s, PostConditionDeserialize(EmptyPostCondition, s.rest)),
             n - 1)

\* LengthPrefixedList.deserialize(bufferReader, PostCondition)
LengthPrefixedListDeserialize(buf) ==
    LET n == ReadU32(buf) IN
    IF ~n.ok THEN Fail(<<>>, buf) ELSE DeserializeEach(Done(<<>>, n.rest), n.val)

----------------------------------------------------------------------------
(* transaction.ts: class StacksTransaction.                                *)

\* the anchor mode the constructor derives from the payload type
DefaultAnchorMode(payload) ==
    IF ~IsSome(payload) THEN None
    ELSE IF Get(payload).payloadType = PayloadTypeCoinbase THEN Some(AnchorModeOnChainOnly)
    ELSE IF Get(payload).payloadType = PayloadTypePoisonMicroblock
    THEN Some(AnchorModeOnChainOnly)
    ELSE Some(AnchorModeAny)

\* a variant of the constructor whose switch has no PoisonMicroblock case
StacksTransactionNoPoisonCase(version, auth, payload) ==
    [version |-> version,
     chainId |-> Some(DEFAULT_CHAIN_ID),
     auth |-> auth,
     anchorMode |-> IF ~IsSome(payload) THEN None
                    ELSE IF Get(payload).payloadType = PayloadTypeCoinbase
                    THEN Some(AnchorModeOnChainOnly)
                    ELSE Some(AnchorModeAny),
     payload |-> payload,
     postConditionMode |-> PostConditionModeDeny,
     postConditions |-> <<>>]

\* constructor(version?, auth?, payload?)
StacksTransaction(version, auth, payload) ==
    [version |-> version,
     chainId |-> Some(DEFAULT_CHAIN_ID),
     auth |-> auth,
     anchorMode |-> DefaultAnchorMode(payload),
     payload |-> payload,
     postConditionMode |-> PostConditionModeDeny,
     postConditions |-> <<>>]

\* the optional fields serialize tests for undefined, in the order of the tests
CheckedFields == <<"version", "chainId", "auth", "anchorMode", "payload">>

RECURSIVE FirstAbsent(_, _)
FirstAbsent(t, names) ==
    IF names = <<>> THEN None
    ELSE IF ~IsSome(t[names[1]]) THEN Some(names[1])
    ELSE FirstAbsent(t, Tail(names))

OptHexField(opt) == IF IsSome(opt) THEN HexField(Get(opt)) ELSE Ok(<<>>)

\* serialize(), with the fields it tests and the order it appends in:
\* 1 version, 2 chainId, 3 auth, 4 anchorMode, 5 postConditionMode,
\* 6 postConditions, 7 payload
TxSerializeWith(t, checked, order) ==
    LET missing == FirstAbsent(t, checked)
        piece == <<OptHexField(t.version),
                   OptHexField(t.chainId),
                   IF IsSome(t.auth) THEN AuthorizationSerialize(Get(t.auth)) ELSE Ok(<<>>),
                   OptHexField(t.anchorMode),
                   HexField(t.postConditionMode),
                   LengthPrefixedListSerialize(t.postConditions),
                   IF IsSome(t.payload) THEN PayloadSerialize(Get(t.payload)) ELSE Ok(<<>>)>>
    IN  IF IsSome(missing) THEN Err(Get(missing))
        ELSE CatAll([i \in 1..7 |-> piece[order[i]]])

\* variants: anchor mode and post-condition mode appended in the other
\* order; no test of chainId
TxSerializeModesSwapped(t) == TxSerializeWith(t, CheckedFields, <<1, 2, 3, 5, 4, 6, 7>>)
TxSerializeNoChainIdTest(t) ==
    TxSerializeWith(t, <<"version", "auth", "anchorMode", "payload">>, <<1, 2, 3, 4, 5, 6, 7>>)

TxSerialize(t) == TxSerializeWith(t, CheckedFields, <<1, 2, 3, 4, 5, 6, 7>>)

\* txid()
txid(t) ==
    LET r == TxSerialize(t)
    IN  IF r.ok THEN [ok |-> TRUE, err |-> "", val |-> txidFromData(r.bytes)]
        ELSE [ok |-> FALSE, err |-> r.err, val |-> <<>>]

\* deserialize(bufferReader), one operator per statement, with the tag the
\* version byte is matched against
ReadVersion(s, mainnetTag) ==
    LET r == Read(s.rest, 1)
    IN  ThenAssign(s, r, [s.val EXCEPT !.version =
                              IF ToHex(r.val) = mainnetTag
                              THEN Some(TransactionVersionMainnet)
                              ELSE Some(TransactionVersionTestnet)])

ReadChainId(s) ==
    LET r == Read(s.rest, 4)
    IN  ThenAssign(s, r, [s.val EXCEPT !.chainId = Some(ToHex(r.val))])

ReadAuth(s) ==
    LET r == AuthorizationDeserialize(s.rest)
    IN  ThenAssign(s, r, [s.val EXCEPT !.auth = Some(r.val)])

ReadAnchorMode(s) ==
    LET r == Read(s.rest, 1)
    IN  ThenAssign(s, r, [s.val EXCEPT !.anchorMode = Some(ToHex(r.val))])

ReadPostConditionMode(s) ==
    LET r == Read(s.rest, 1)
    IN  ThenAssign(s, r, [s.val EXCEPT !.postConditionMode = ToHex(r.val)])

ReadPostConditions(s) ==
    LET r == LengthPrefixedListDeserialize(s.rest)
    IN  ThenAssign(s, r, [s.val EXCEPT !.postConditions = r.val])

ReadPayload(s) ==
    LET r == PayloadDeserialize(s.rest)
    IN  ThenAssign(s, r, [s.val EXCEPT !.payload = Some(r.val)])

TxDeserializeWith(this, buf, mainnetTag) ==
    ReadPayload(ReadPostConditions(ReadPostConditionMode(ReadAnchorMode(
        ReadAuth(ReadChainId(ReadVersion(Done(this, buf), mainnetTag)))))))

\* a variant that matches the version byte against the testnet tag
TxDeserializeTestnetTag(this, buf) ==
    TxDeserializeWith(this, buf, TransactionVersionTestnet)

TxDeserialize(this, buf) == TxDeserializeWith(this, buf, TransactionVersionMainnet)

\* a variant that puts the new post-condition in front (unshift for push)
addPostConditionUnshift(t, postCondition) ==
    [t EXCEPT !.postConditions = <<postCondition>> \o @]

\* addPostCondition(postCondition)
addPostCondition(t, postCondition) ==
    [t EXCEPT !.postConditions = Append(@, postCondition)]

\* What a signing operation does: the transaction afterwards, the sighash
\* returned, the signature produced, whether nextSignature was invoked.
SignThrown(t, err) ==
    [ok |-> FALSE, err |-> err, tx |-> t, ret |-> None, sig |-> None, calls |-> 0]

\* a variant that strips the authorization of `this` instead of a clone's
signBeginNoClone(t) ==
    IF ~IsSome(t.auth) THEN SignThrown(t, "auth")
    ELSE LET stripped == [t EXCEPT !.auth = Some(intoInitialSighashAuth(Get(t.auth)))]
             id == txid(stripped)
         IN  IF ~id.ok THEN SignThrown(stripped, id.err)
             ELSE [ok |-> TRUE, err |-> "", tx |-> stripped, ret |-> Some(id.val),
                   sig |-> None, calls |-> 0]

\* signBegin()
signBegin(t) ==
    IF ~IsSome(t.auth) THEN SignThrown(t, "auth")
    ELSE LET clone == [t EXCEPT !.auth = Some(intoInitialSighashAuth(Get(t.auth)))]
             id == txid(clone)
         IN  IF ~id.ok THEN SignThrown(t, id.err)
             ELSE [ok |-> TRUE, err |-> "", tx |-> t, ret |-> Some(id.val),
                   sig |-> None, calls |-> 0]

\* signAndAppend(condition, curSigHash, authType, privateKey); the condition
\* is the one t.auth holds under `which` (spendingCondition, sponsorCondition)
signAndAppendWith(t, which, curSigHash, authType, privateKey, testFeeRate) ==
    LET condition == Get(Get(t.auth)[which]) IN
    IF testFeeRate /\ ~IsSome(condition.feeRate) THEN SignThrown(t, "condition.feeRate")
    ELSE IF ~IsSome(condition.nonce) THEN SignThrown(t, "condition.nonce")
    ELSE LET n == nextSignature(curSigHash, authType, condition.feeRate,
                                condition.nonce, privateKey)
             signed == IF singleSig(condition)
                       THEN [condition EXCEPT !.signature = n.nextSig]
                       ELSE condition
         IN  [ok |-> TRUE, err |-> "",
              tx |-> [t EXCEPT !.auth = Some([Get(t.auth) EXCEPT ![which] = Some(signed)])],
              ret |-> Some(n.nextSigHash), sig |-> Some(n.nextSig), calls |-> 1]

\* a variant without the test of condition.feeRate
signAndAppendNoFeeRateTest(t, which, curSigHash, authType, privateKey) ==
    signAndAppendWith(t, which, curSigHash, authType, privateKey, FALSE)

signAndAppend(t, which, curSigHash, authType, privateKey) ==
    signAndAppendWith(t, which, curSigHash, authType, privateKey, TRUE)

\* signNextOrigin(sigHash, privateKey)
signNextOrigin(t, sigHash, privateKey) ==
    IF ~IsSome(t.auth) THEN SignThrown(t, "auth")
    ELSE IF ~IsSome(Get(t.auth).spendingCondition)
    THEN SignThrown(t, "auth.spendingCondition")
    ELSE IF ~IsSome(Get(t.auth).authType) THEN SignThrown(t, "auth.authType")
    ELSE signAndAppend(t, "spendingCondition", sigHash, Get(Get(t.auth).authType),
                       privateKey)

----------------------------------------------------------------------------
(* What an operation leaves behind for its caller.                         *)
(*   op     the operation                                                  *)
(*   ok     FALSE when it threw, err the field or limit the Error names    *)
(*   bytes  the Buffer returned by serialize (kept by deserialize)         *)
(*   obj    the object a deserialize populated                             *)
(*   rest   the bytes the BufferReader has not consumed                    *)
(*   ret    the sighash returned by a signing operation                    *)
(*   calls  how often SpendingCondition.nextSignature was invoked          *)

Result(op, ok, err, bytes, obj, rest, ret, calls) ==
    [op |-> op, ok |-> ok, err |-> err, bytes |-> bytes, obj |-> obj,
     rest |-> rest, ret |-> ret, calls |-> calls]

NoResult == Result("none", TRUE, "", <<>>, None, <<>>, None, 0)
Returned(op) == Result(op, TRUE, "", <<>>, None, <<>>, None, 0)

----------------------------------------------------------------------------
(* Inputs.                                                                 *)

MaxNameLen == 2

Names == UNION {[1..n -> {97}] : n \in 0..MaxNameLen}
LongName == Fill(129, 97)

Addr1 == Address(22, Fill(20, 17))
Addr2 == Address(26, Fill(20, 34))

Principals ==
    {StandardPrincipal(Addr1)} \cup {ContractPrincipal(Addr1, n) : n \in Names}

AssetInfos == {AssetInfo(Addr2, <<99>>, <<110, 102, 116>>)}

FungibleCodes == {FungibleConditionCodeEqual, FungibleConditionCodeGreaterEqual}
NonFungibleCodes == {NonFungibleConditionCodeDoesNotOwn, NonFungibleConditionCodeOwns}

\* 0, 1, 256, 1000000, 2^64 - 1, and 2^64, which does not fit 8 bytes
U64Amounts == {<<>>, <<1>>, <<1, 0>>, <<15, 66, 64>>, Fill(8, 255)}
Amounts == U64Amounts \cup {<<1>> \o Fill(8, 0)}

Opt(S) == {None} \cup {Some(v) : v \in S}

\* tag bytes that no enumeration of ./constants defines
UnknownTags == {9, 255}

----------------------------------------------------------------------------
(* The post-condition codec as a state machine: build a post-condition     *)
(* with one of the three constructors, serialize it, read the bytes back   *)
(* into a fresh object.  Each behaviour follows one post-condition.        *)

InitPC ==
    /\ tx = StacksTransaction(None, None, None)
    /\ pc = EmptyPostCondition
    /\ res = NoResult

NewSTXPostCondition ==
    \E p \in Opt(Principals), c \in Opt(FungibleCodes), a \in Opt(Amounts) :
        /\ res.op = "none"
        /\ pc' = STXPostCondition(p, c, a)
        /\ res' = Returned("new")
        /\ UNCHANGED tx

NewFungiblePostCondition ==
    \E p \in Opt(Principals), c \in Opt(FungibleCodes), a \in Opt(Amounts),
       i \in Opt(AssetInfos) :
        /\ res.op = "none"
        /\ pc' = FungiblePostCondition(p, c, a, i)
        /\ res' = Returned("new")
        /\ UNCHANGED tx

NewNonFungiblePostCondition ==
    \E p \in Opt(Principals), c \in Opt(NonFungibleCodes), i \in Opt(AssetInfos),
       n \in Opt(Names \cup {LongName}) :
        /\ res.op = "none"
        /\ pc' = NonFungiblePostCondition(p, c, i, n)
        /\ res' = Returned("new")
        /\ UNCHANGED tx

SerializePostCondition ==
    /\ res.op = "new"
    /\ LET r == PostConditionSerialize(pc)
       IN  res' = Result("serialize", r.ok, r.err, r.bytes, None, <<>>, None, 0)
    /\ UNCHANGED <<tx, pc>>

DeserializePostCondition ==
    /\ res.op = "serialize"
    /\ res.ok
    /\ LET d == PostConditionDeserialize(EmptyPostCondition, res.bytes)
       IN  res' = Result("deserialize", d.ok, "", res.bytes, Some(d.val), d.rest, None, 0)
    /\ UNCHANGED <<tx, pc>>

\* where a serialized post-condition holds its type and condition code
PostConditionTagOffset(p, bytes, which) ==
    IF which = "postConditionType" THEN 1
    ELSE IF p.postConditionType = Some(PostConditionTypeNonFungible) THEN Len(bytes)
    ELSE Len(bytes) - 8

\* deserialize on a buffer that did not come from serialize: a serialized
\* post-condition in which one tag byte is a value no enumeration defines
DeserializeForeignPostCondition ==
    \E which \in {"postConditionType", "conditionCode"}, b \in UnknownTags :
        /\ res.op = "serialize"
        /\ res.ok
        /\ LET bytes == [res.bytes EXCEPT ![PostConditionTagOffset(pc, res.bytes, which)] = b]
               d == PostConditionDeserialize(EmptyPostCondition, bytes)
           IN  res' = Result("deserializeForeign", d.ok, "", bytes, Some(d.val), d.rest,
                             None, 0)
        /\ UNCHANGED <<tx, pc>>

NextPC ==
    \/ NewSTXPostCondition
    \/ NewFungiblePostCondition
    \/ NewNonFungiblePostCondition
    \/ SerializePostCondition
    \/ DeserializePostCondition
    \/ DeserializeForeignPostCondition

SpecPC == InitPC /\ [][NextPC]_vars

----------------------------------------------------------------------------
(* Claims about the post-condition codec (checked under SpecPC).           *)

IsNonFungible(p) == p.postConditionType = Some(PostConditionTypeNonFungible)

HasAmountField(p) ==
    p.postConditionType \in {Some(PostConditionTypeSTX), Some(PostConditionTypeFungible)}

\* C3: a post-condition built by one of the three constructors and read
\* back from its serialized bytes into a fresh object has the same
\* postConditionType, principal, conditionCode, assetInfo, assetName and
\* amount, a field the variant does not carry being absent on both sides;
\* a NonFungible post-condition has an absent amount (not zero) before
\* serialization and after deserialization.
PostConditionRoundTrip ==
    /\ IsNonFungible(pc) => pc.amount = None
    /\ res.op = "deserialize" =>
        LET d == Get(res.obj) IN
        /\ res.ok
        /\ res.rest = <<>>
        /\ d.postConditionType = pc.postConditionType
        /\ d.principal = pc.principal
        /\ d.conditionCode = pc.conditionCode
        /\ d.assetInfo = pc.assetInfo
        /\ d.assetName = pc.assetName
        /\ d.amount = pc.amount
        /\ IsNonFungible(pc) => d.amount = None /\ d.amount /= Some(<<>>)

\* C3 witness: a NonFungible post-condition with an asset name went through
\* serialize and deserialize.
NonFungibleRoundTripped ==
    /\ res.op = "deserialize"
    /\ res.ok
    /\ IsNonFungible(pc)
    /\ pc.assetName = Some(LengthPrefixedString(<<97, 97>>))
    /\ Get(res.obj).amount = None

\* C4: an STX or Fungible post-condition serializes its amount as exactly
\* 8 big-endian bytes, as the last field after the condition code; every
\* amount in 0 .. 2^64-1 is accepted and comes back numerically identical.
AmountEightBytesBigEndian ==
    HasAmountField(pc) =>
        /\ res.op = "serialize" /\ res.ok =>
            LET n == Len(res.bytes) IN
            /\ n = 1 + Len(PrincipalSerialize(Get(pc.principal)).bytes)
                   + (IF IsSome(pc.assetInfo)
                      THEN Len(AssetInfoSerialize(Get(pc.assetInfo)).bytes) ELSE 0)
                   + 1 + 8
            /\ <<res.bytes[n - 8]>> = FromHex(Get(pc.conditionCode))
            /\ StripZeros(SubSeq(res.bytes, n - 7, n)) = Get(pc.amount)
        /\ ( /\ res.op = "serialize"
             /\ IsSome(pc.principal)
             /\ IsSome(pc.conditionCode)
             /\ pc.postConditionType = Some(PostConditionTypeFungible) => IsSome(pc.assetInfo)
             /\ IsSome(pc.amount)
             /\ Get(pc.amount) \in U64Amounts ) => res.ok
        /\ res.op = "deserialize" => res.ok /\ Get(res.obj).amount = pc.amount

\* C4 witness: the amounts 1000000 and 2^64-1 went through the round trip.
AmountRoundTripped ==
    /\ res.op = "deserialize"
    /\ HasAmountField(pc)
    /\ pc.amount \in {Some(<<15, 66, 64>>), Some(Fill(8, 255))}
    /\ Get(res.obj).amount = pc.amount

\* C11: the postConditionType of a post-condition agrees with the fields it
\* carries: an STX post-condition carries no assetInfo and no assetName, a
\* Fungible one carries an assetInfo and no assetName, a NonFungible one
\* carries an assetInfo and no amount.
TypeAgreesWithFields ==
    LET t == pc.postConditionType IN
    /\ t = Some(PostConditionTypeSTX) => pc.assetInfo = None /\ pc.assetName = None
    /\ t = Some(PostConditionTypeFungible) => IsSome(pc.assetInfo) /\ pc.assetName = None
    /\ t = Some(PostConditionTypeNonFungible) => IsSome(pc.assetInfo) /\ pc.amount = None

----------------------------------------------------------------------------
(* The transaction codec as a state machine: construct a transaction,      *)
(* assign its public fields, add post-conditions, serialize it, read the   *)
(* bytes back into a fresh transaction.  Each behaviour follows one        *)
(* transaction.                                                            *)

MaxPostConditions == 2

Key1 == <<1>>
Key2 == <<2>>

SignerHash1 == Fill(20, 51)
SignerHash2 == Fill(20, 68)

Versions == {TransactionVersionMainnet, TransactionVersionTestnet}

UnsignedCondition == SingleSigSpendingCondition(SignerHash1, Some(<<>>), Some(<<>>))
SignedCondition ==
    [SingleSigSpendingCondition(SignerHash2, Some(<<1>>), Some(<<1, 0>>))
        EXCEPT !.signature = Sign(<<1, 2>>, Key1)]

Authorizations ==
    {StandardAuthorization(UnsignedCondition),
     SponsoredAuthorization(SignedCondition, UnsignedCondition)}

Payloads ==
    {TokenTransferPayload(Addr1, <<38, 37, 160>>, <<109, 101, 109, 111>>),
     ContractCallPayload(Addr1, <<107, 118>>, <<103, 101, 116>>, <<3, 4>>),
     SmartContractPayload(<<107, 118>>, <<40, 41>>),
     PoisonPayload(Fill(32, 5), Fill(32, 6)),
     CoinbasePayload(Fill(32, 9))}

\* three post-conditions that serialize and one (no amount) that does not
PostConditions ==
    {STXPostCondition(Some(StandardPrincipal(Addr1)),
                      Some(FungibleConditionCodeGreaterEqual), Some(<<15, 66, 64>>)),
     NonFungiblePostCondition(Some(ContractPrincipal(Addr1, <<97>>)),
                              Some(NonFungibleConditionCodeOwns),
                              Some(AssetInfo(Addr2, <<99>>, <<110, 102, 116>>)),
                              Some(<<110, 102, 116>>)),
     FungiblePostCondition(Some(StandardPrincipal(Addr1)),
                           Some(FungibleConditionCodeLessEqual), Some(Fill(8, 255)),
                           Some(AssetInfo(Addr2, <<99>>, <<116>>))),
     STXPostCondition(Some(StandardPrincipal(Addr1)),
                      Some(FungibleConditionCodeEqual), None)}

\* assignments to the public fields the constructor does not take
Assignments ==
    {<<"chainId", None>>,
     <<"anchorMode", None>>,
     <<"anchorMode", Some(AnchorModeOffChainOnly)>>,
     <<"postConditionMode", PostConditionModeAllow>>}

Init ==
    /\ tx = StacksTransaction(None, None, None)
    /\ pc = EmptyPostCondition
    /\ res = NoResult

NewTransaction ==
    \E v \in Opt(Versions), a \in Opt(Authorizations), p \in Opt(Payloads) :
        /\ res.op = "none"
        /\ tx' = StacksTransaction(v, a, p)
        /\ res' = Returned("new")
        /\ UNCHANGED pc

AssignField ==
    \E f \in Assignments :
        /\ res.op \in {"new", "assign"}
        /\ tx' = [tx EXCEPT ![f[1]] = f[2]]
        /\ res' = Returned("assign")
        /\ UNCHANGED pc

AddPostCondition ==
    \E p \in PostConditions :
        /\ res.op \in {"new", "assign", "add"}
        /\ Len(tx.postConditions) < MaxPostConditions
        /\ tx' = addPostCondition(tx, p)
        /\ res' = Result("add", TRUE, "", <<>>, Some(p), <<>>, None, 0)
        /\ UNCHANGED pc

Serialize ==
    /\ res.op \in {"new", "assign", "add"}
    /\ LET r == TxSerialize(tx)
       IN  res' = Result("serialize", r.ok, r.err, r.bytes, None, <<>>, None, 0)
    /\ UNCHANGED <<tx, pc>>

Deserialize ==
    /\ res.op = "serialize"
    /\ res.ok
    /\ LET d == TxDeserialize(StacksTransaction(None, None, None), res.bytes)
       IN  res' = Result("deserialize", d.ok, "", res.bytes, Some(d.val), d.rest, None, 0)
    /\ UNCHANGED <<tx, pc>>

\* where a serialized transaction holds its anchor mode and post-condition
\* mode: after version (1), chainId (4) and the authorization
TagOffset(t, which) ==
    5 + Len(AuthorizationSerialize(Get(t.auth)).bytes)
      + (IF which = "anchorMode" THEN 1 ELSE 2)

\* deserialize on a buffer that did not come from serialize: a serialized
\* transaction in which one tag byte is a value no enumeration defines
DeserializeForeign ==
    \E which \in {"anchorMode", "postConditionMode"}, b \in UnknownTags :
        /\ res.op = "serialize"
        /\ res.ok
        /\ LET bytes == [res.bytes EXCEPT ![TagOffset(tx, which)] = b]
               d == TxDeserialize(StacksTransaction(None, None, None), bytes)
           IN  res' = Result("deserializeForeign", d.ok, "", bytes, Some(d.val), d.rest,
                             None, 0)
        /\ UNCHANGED <<tx, pc>>

Next ==
    \/ NewTransaction
    \/ AssignField
    \/ AddPostCondition
    \/ Serialize
    \/ Deserialize
    \/ DeserializeForeign

Spec == Init /\ [][Next]_vars

----------------------------------------------------------------------------
(* Claims about the transaction codec (checked under Spec).                *)

AllPresent(t) ==
    /\ IsSome(t.version)
    /\ IsSome(t.chainId)
    /\ IsSome(t.auth)
    /\ IsSome(t.anchorMode)
    /\ IsSome(t.payload)

\* C1: serialize, on a transaction whose version, chainId, auth, anchorMode
\* and payload are present, returns the concatenation, in this order, of
\* version (1 byte), chain id (4 bytes), the serialized authorization,
\* anchor mode (1 byte), post-condition mode (1 byte), the serialized
\* post-condition list and the serialized payload; when one of the parts
\* cannot be serialized it throws and returns no bytes.
SerializeFieldOrder ==
    res.op = "serialize" /\ AllPresent(tx) =>
        LET version == FromHex(Get(tx.version))
            chainId == FromHex(Get(tx.chainId))
            auth == AuthorizationSerialize(Get(tx.auth))
            anchorMode == FromHex(Get(tx.anchorMode))
            postConditionMode == FromHex(tx.postConditionMode)
            postConditions == LengthPrefixedListSerialize(tx.postConditions)
            payload == PayloadSerialize(Get(tx.payload))
        IN
        /\ Len(version) = 1
        /\ Len(chainId) = 4
        /\ Len(anchorMode) = 1
        /\ Len(postConditionMode) = 1
        /\ IF auth.ok /\ postConditions.ok /\ payload.ok
           THEN /\ res.ok
                /\ res.bytes = version \o chainId \o auth.bytes \o anchorMode
                                \o postConditionMode \o postConditions.bytes
                                \o payload.bytes
           ELSE ~res.ok /\ res.bytes = <<>>

\* C1 witness: a transaction with two post-conditions and a contract call
\* was serialized.
SerializedFullTransaction ==
    /\ res.op = "serialize"
    /\ res.ok
    /\ AllPresent(tx)
    /\ Len(tx.postConditions) = 2
    /\ Get(tx.payload).payloadType = PayloadTypeContractCall
    /\ Len(res.bytes) > 7

\* C2: the bytes of serialize(tx), read into a fresh StacksTransaction,
\* give a transaction field-wise equal to tx (the post-conditions in the
\* same order), and serializing that transaction gives the same bytes.
TransactionRoundTrip ==
    res.op = "deserialize" =>
        LET d == Get(res.obj) IN
        /\ res.ok
        /\ res.rest = <<>>
        /\ d.version = tx.version
        /\ d.chainId = tx.chainId
        /\ d.auth = tx.auth
        /\ d.anchorMode = tx.anchorMode
        /\ d.postConditionMode = tx.postConditionMode
        /\ Len(d.postConditions) = Len(tx.postConditions)
        /\ \A i \in 1..Len(tx.postConditions) : d.postConditions[i] = tx.postConditions[i]
        /\ d.payload = tx.payload
        /\ TxSerialize(d) = Ok(res.bytes)

\* C2 witness: a mainnet transaction with a sponsored authorization and two
\* different post-conditions went through serialize and deserialize.
TransactionRoundTripped ==
    /\ res.op = "deserialize"
    /\ res.ok
    /\ tx.version = Some(TransactionVersionMainnet)
    /\ Get(tx.auth).authType = Some(AuthTypeSponsored)
    /\ Len(tx.postConditions) = 2
    /\ tx.postConditions[1] /= tx.postConditions[2]
    /\ Get(res.obj).postConditions = tx.postConditions

OnChainOnlyPayload(p) ==
    p.payloadType \in {PayloadTypeCoinbase, PayloadTypePoisonMicroblock}

\* C5: the constructor sets anchorMode to OnChainOnly for a Coinbase or
\* PoisonMicroblock payload and to Any for a TokenTransfer, ContractCall or
\* SmartContract payload; it sets chainId to the default chain id,
\* postConditionMode to Deny and the post-condition list to empty.
ConstructorDefaults ==
    res.op = "new" =>
        /\ IsSome(tx.payload) /\ OnChainOnlyPayload(Get(tx.payload))
              => tx.anchorMode = Some(AnchorModeOnChainOnly)
        /\ IsSome(tx.payload) /\ ~OnChainOnlyPayload(Get(tx.payload))
              => tx.anchorMode = Some(AnchorModeAny)
        /\ tx.chainId = Some(DEFAULT_CHAIN_ID)
        /\ tx.postConditionMode = PostConditionModeDeny
        /\ tx.postConditions = <<>>

\* C5 witness: a transaction was constructed with a PoisonMicroblock payload.
ConstructedWithPoison ==
    /\ res.op = "new"
    /\ IsSome(tx.payload)
    /\ Get(tx.payload).payloadType = PayloadTypePoisonMicroblock
    /\ tx.anchorMode = Some(AnchorModeOnChainOnly)

\* C6: serialize throws, naming an absent field, and returns no bytes
\* whenever version, chainId, auth, anchorMode or payload is absent, for
\* every combination of absent fields; the field named is the first absent
\* one in that order.  (postConditionMode and postConditions are never
\* absent: the constructor and deserialize always set them.)
SerializeRequiresFields ==
    res.op = "serialize" /\ ~AllPresent(tx) =>
        /\ ~res.ok
        /\ res.bytes = <<>>
        /\ res.err \in {"version", "chainId", "auth", "anchorMode", "payload"}
        /\ ~IsSome(tx[res.err])
        /\ \A i \in 1..Len(CheckedFields) :
              CheckedFields[i] = res.err =>
                  \A j \in 1..(i - 1) : IsSome(tx[CheckedFields[j]])

\* C6 witness: serialize was called with only chainId absent, and threw
\* naming it.
SerializeThrewChainId ==
    /\ res.op = "serialize"
    /\ ~res.ok
    /\ ~IsSome(tx.chainId)
    /\ IsSome(tx.version) /\ IsSome(tx.auth) /\ IsSome(tx.anchorMode) /\ IsSome(tx.payload)
    /\ res.err = "chainId"

\* C12: deserialize rejects a buffer whose post-condition type, condition
\* code, anchor mode or post-condition mode byte is not a defined value: the
\* call fails and populates no field of the object it was called on.
RejectsUnknownTags ==
    res.op = "deserializeForeign" =>
        /\ ~res.ok
        /\ Get(res.obj) \in {StacksTransaction(None, None, None), EmptyPostCondition}

\* C14: addPostCondition puts its argument at the end of the list and
\* changes nothing else of the transaction; serialize emits the list after
\* the post-condition mode as a 4-byte big-endian count followed by the
\* elements in list order, then the payload; deserialize recovers the same
\* list, in order, each element with its variant.
PostConditionsInCallOrder ==
    [][ /\ res'.op = "add" =>
            /\ tx'.postConditions = tx.postConditions \o <<Get(res'.obj)>>
            /\ [tx' EXCEPT !.postConditions = tx.postConditions] = tx
        /\ res'.op = "serialize" /\ res'.ok =>
            LET n == Len(tx.postConditions)
                off == TagOffset(tx, "postConditionMode")
                elements == Flatten([i \in 1..n |->
                                PostConditionSerialize(tx.postConditions[i]).bytes])
            IN  /\ SubSeq(res'.bytes, off + 1, off + 4) = <<0, 0, 0, n>>
                /\ SubSeq(res'.bytes, off + 5, off + 4 + Len(elements)) = elements
                /\ SubSeq(res'.bytes, off + 5 + Len(elements), Len(res'.bytes))
                       = PayloadSerialize(Get(tx.payload)).bytes
        /\ res'.op = "deserialize" /\ res'.ok =>
            Get(res'.obj).postConditions = tx.postConditions
      ]_vars

\* C14 witness: a transaction with two different post-conditions, added one
\* after the other, went through serialize and deserialize.
TwoPostConditionsRoundTripped ==
    /\ res.op = "deserialize"
    /\ res.ok
    /\ Len(tx.postConditions) = 2
    /\ tx.postConditions[1] /= tx.postConditions[2]
    /\ Get(res.obj).postConditions = tx.postConditions

----------------------------------------------------------------------------
(* The signing steps as a state machine: construct a transaction, then     *)
(* call signBegin, signNextOrigin and signAndAppend in any order.  The     *)
(* caller threads the sighash the previous step returned, as               *)
(* TransactionSigner does; without one it passes CallerSigHash.            *)

MaxSignatures == 2

CallerSigHash == <<0, 0, 0, 0>>

FullCondition == SingleSigSpendingCondition(SignerHash1, Some(<<>>), Some(<<>>))
NoFeeRateCondition == SingleSigSpendingCondition(SignerHash1, Some(<<>>), None)
NoNonceCondition == SingleSigSpendingCondition(SignerHash1, None, Some(<<>>))
MultiCondition == MultiSigSpendingCondition(SignerHash1, Some(<<>>), Some(<<>>), 2)
SponsorCondition == SingleSigSpendingCondition(SignerHash2, Some(<<1>>), Some(<<1>>))
NoFeeRateSponsorCondition == SingleSigSpendingCondition(SignerHash2, Some(<<1>>), None)

SigningAuthorizations ==
    {StandardAuthorization(c) :
        c \in {FullCondition, NoFeeRateCondition, NoNonceCondition, MultiCondition}}
    \cup {Authorization(None, Some(FullCondition), None),
          Authorization(Some(AuthTypeStandard), None, None),
          SponsoredAuthorization(FullCondition, SponsorCondition),
          SponsoredAuthorization(MultiCondition, SponsorCondition),
          SponsoredAuthorization(FullCondition, NoFeeRateSponsorCondition)}

SigningPayload == TokenTransferPayload(Addr1, <<38, 37, 160>>, <<109, 101, 109, 111>>)

Conditions == {"spendingCondition", "sponsorCondition"}

\* the sighash the caller passes to the next signing step
ThreadedSigHash == IF IsSome(res.ret) THEN Get(res.ret) ELSE CallerSigHash

SignResult(op, which, r) ==
    Result(op, r.ok, r.err, <<>>, Some([which |-> which, nextSig |-> r.sig]), <<>>,
           r.ret, res.calls + r.calls)

NewSigningTransaction ==
    \E v \in Opt({TransactionVersionTestnet}), a \in Opt(SigningAuthorizations) :
        /\ res.op = "none"
        /\ tx' = StacksTransaction(v, a, Some(SigningPayload))
        /\ res' = Returned("new")
        /\ UNCHANGED pc

SignBegin ==
    /\ res.op /= "none"
    /\ LET r == signBegin(tx) IN
        /\ tx' = r.tx
        /\ res' = SignResult("signBegin", "", r)
    /\ UNCHANGED pc

SignNextOrigin ==
    \E k \in {Key1, Key2} :
        /\ res.op /= "none"
        /\ res.calls < MaxSignatures
        /\ LET r == signNextOrigin(tx, ThreadedSigHash, k) IN
            /\ tx' = r.tx
            /\ res' = SignResult("signNextOrigin", "spendingCondition", r)
        /\ UNCHANGED pc

\* the caller passes a condition of the transaction's authorization and the
\* authorization's type
SignAndAppend ==
    \E which \in Conditions, k \in {Key1, Key2} :
        /\ res.op /= "none"
        /\ res.calls < MaxSignatures
        /\ IsSome(tx.auth)
        /\ IsSome(Get(tx.auth)[which])
        /\ LET authType == IF IsSome(Get(tx.auth).authType)
                           THEN Get(Get(tx.auth).authType) ELSE AuthTypeStandard
               r == signAndAppend(tx, which, ThreadedSigHash, authType, k)
           IN
            /\ tx' = r.tx
            /\ res' = SignResult("signAndAppend", which, r)
        /\ UNCHANGED pc

\* addPostCondition between or after the signing steps; the caller keeps the
\* sighash the last signing step returned
SigningPostCondition ==
    STXPostCondition(Some(StandardPrincipal(Addr1)), Some(FungibleConditionCodeEqual),
                     Some(<<1>>))

AddPostConditionWhileSigning ==
    /\ res.op /= "none"
    /\ Len(tx.postConditions) < MaxPostConditions
    /\ tx' = addPostCondition(tx, SigningPostCondition)
    /\ res' = Result("add", TRUE, "", <<>>, Some(SigningPostCondition), <<>>, res.ret,
                     res.calls)
    /\ UNCHANGED pc

NextSign ==
    \/ NewSigningTransaction
    \/ SignBegin
    \/ SignNextOrigin
    \/ SignAndAppend
    \/ AddPostConditionWhileSigning

SpecSign == Init /\ [][NextSign]_vars

----------------------------------------------------------------------------
(* Claims about the signing steps (checked under SpecSign).                *)

Origin(t) == Get(Get(t.auth).spendingCondition)
Sponsor(t) == Get(Get(t.auth).sponsorCondition)

HasOrigin(t) == IsSome(t.auth) /\ IsSome(Get(t.auth).spendingCondition)
HasSponsor(t) == IsSome(t.auth) /\ IsSome(Get(t.auth).sponsorCondition)

\* a condition that holds a signature
IsSigned(condition) ==
    IF singleSig(condition) THEN condition.signature /= EmptySignature
    ELSE condition.fields /= <<>>

LacksFeeRateOrNonce(condition) ==
    ~IsSome(condition.feeRate) \/ ~IsSome(condition.nonce)

\* the operation threw before nextSignature was invoked and changed nothing
AbortedBeforeSigning ==
    /\ ~res'.ok
    /\ res'.calls = res.calls
    /\ res'.ret = None
    /\ Get(res'.obj).nextSig = None
    /\ tx' = tx

\* C7: when the auth, its spending condition, its auth type, or the
\* condition's fee rate or nonce is absent, signNextOrigin and signAndAppend
\* (and signBegin for an absent auth) throw before nextSignature is invoked
\* and leave the transaction unchanged: no signature is stored or altered
\* and no sighash is returned.
SigningPreconditions ==
    [][ /\ ( /\ res'.op = "signNextOrigin"
             /\ \/ ~IsSome(tx.auth)
                \/ ~IsSome(Get(tx.auth).spendingCondition)
                \/ ~IsSome(Get(tx.auth).authType)
                \/ LacksFeeRateOrNonce(Origin(tx)) ) => AbortedBeforeSigning
        /\ ( /\ res'.op = "signAndAppend"
             /\ LacksFeeRateOrNonce(Get(Get(tx.auth)[Get(res'.obj).which])) )
               => AbortedBeforeSigning
        /\ ( /\ res'.op = "signBegin"
             /\ ~IsSome(tx.auth) ) => AbortedBeforeSigning
      ]_vars

\* C7 witness: signNextOrigin threw on a condition without a fee rate, with
\* no call of nextSignature so far.
SignNextOriginThrewFeeRate ==
    /\ res.op = "signNextOrigin"
    /\ ~res.ok
    /\ res.err = "condition.feeRate"
    /\ res.calls = 0
    /\ ~IsSigned(Origin(tx))

\* C8: when signAndAppend returns, the condition it was given holds the
\* signature nextSignature produced: as its signature field when it is
\* single-sig, as the last element of its signature list when it is
\* multi-sig.
SignatureRecorded ==
    res.op \in {"signAndAppend", "signNextOrigin"} /\ res.ok =>
        LET condition == Get(Get(tx.auth)[Get(res.obj).which])
            nextSig == Get(Get(res.obj).nextSig)
        IN  IF singleSig(condition) THEN condition.signature = nextSig
            ELSE /\ condition.fields /= <<>>
                 /\ condition.fields[Len(condition.fields)] = nextSig

\* the signatures required of a transaction are stored
FullySigned(t) ==
    /\ HasOrigin(t)
    /\ IsSigned(Origin(t))
    /\ Get(t.auth).authType = Some(AuthTypeSponsored) =>
          HasSponsor(t) /\ IsSigned(Sponsor(t))

\* C9: once the required signatures of a transaction are stored, no call of
\* signNextOrigin or signAndAppend on it changes a stored signature.
SignedIsImmutable ==
    [][ FullySigned(tx) /\ res'.op \in {"signNextOrigin", "signAndAppend"}
            => tx'.auth = tx.auth ]_vars

\* C10: with a Sponsored authorization the sponsor's condition holds no
\* signature while the origin's condition is unsigned; with a Standard
\* authorization no sponsor condition is ever signed.
SigningOrder ==
    IsSome(tx.auth) =>
        /\ ( /\ Get(tx.auth).authType = Some(AuthTypeSponsored)
             /\ HasSponsor(tx)
             /\ IsSigned(Sponsor(tx)) ) => HasOrigin(tx) /\ IsSigned(Origin(tx))
        /\ Get(tx.auth).authType = Some(AuthTypeStandard) =>
              ~(HasSponsor(tx) /\ IsSigned(Sponsor(tx)))

\* C13: signBegin leaves the transaction it is called on as it was (the
\* authorization with any stored signature, version, chainId, anchorMode,
\* postConditionMode, post-conditions, payload), and a second signBegin right
\* after the first returns the same sighash.
SignBeginLeavesOriginal ==
    [][ res'.op = "signBegin" =>
            /\ tx' = tx
            /\ res.op = "signBegin" => res'.ok = res.ok /\ res'.ret = res.ret
      ]_vars

\* C13 witness: signBegin returned a sighash for a transaction whose origin
\* condition holds a signature, and the signature is still there.
SignBeginOnSigned ==
    /\ res.op = "signBegin"
    /\ res.ok
    /\ IsSome(res.ret)
    /\ HasOrigin(tx)
    /\ IsSigned(Origin(tx))

\* the signature a key produces over the sighash signBegin returns for t
SignatureOverContent(t, privateKey) ==
    nextSignature(Get(signBegin(t).ret), AuthTypeStandard, Origin(t).feeRate,
                  Origin(t).nonce, privateKey).nextSig

\* C15: whenever a Standard single-sig transaction holds a signature, it is
\* the signature of some key over the sighash signBegin returns for the
\* transaction as it is now.
SignatureCoversContent ==
    ( /\ HasOrigin(tx)
      /\ Get(tx.auth).authType = Some(AuthTypeStandard)
      /\ singleSig(Origin(tx))
      /\ IsSigned(Origin(tx)) ) =>
        /\ signBegin(tx).ok
        /\ \E k \in {Key1, Key2} : Origin(tx).signature = SignatureOverContent(tx, k)

====
